---- MODULE Spec2Model ----
(***************************************************************************)
(* The iFlow package decomposition engine, EnhancedIFlowChunker of         *)
(* "src/Injection pipeline/app.py": one decomposition run over a package   *)
(* (file discovery, script index, component / flow / process extraction,   *)
(* auxiliary files, coverage report), followed by a second run over the    *)
(* same package with a fresh chunker.                                      *)
(*                                                                         *)
(* A package is a list of files in directory-walk order plus the parsed    *)
(* tree of its first .iflw file.  A tree is a sequence of elements in      *)
(* document order, each with its tag, attributes and parent position.      *)
(* Every element of a tree is in the BPMN MODEL or DI namespace, so both   *)
(* namespace aliases of the code (bpmn2 and bpmn, bound to the same URI)   *)
(* select it.  Attribute "id" is optional and, where present, unique in    *)
(* the document (xsd:ID).  An absent attribute is the empty string.        *)
(***************************************************************************)
EXTENDS Integers, Sequences, FiniteSets, TLC

VARIABLES
    pkg,             \* the package on disk: its files and the tree of its first .iflw
    run,             \* 1 for the first decomposition run, 2 for the repeated one
    firstRun,        \* the (id, signature) pairs the first run returned
    pc,              \* the step process_complete_iflow_package is at
    all_files,       \* all_files of process_complete_iflow_package
    main_iflow,      \* main_iflow of process_complete_iflow_package
    script_index,    \* self.script_index
    chunks,          \* self.chunks
    processed_files, \* self.processed_files
    iflow_chunks,    \* chunks of _process_main_iflow_with_components
    component_ids,   \* component_ids of _process_main_iflow_with_components
    ci,              \* position of its component loop
    pending,         \* files _process_all_related_files has still to take
    processed,       \* processed of _process_all_related_files
    result           \* the dict process_complete_iflow_package returns

vars == <<pkg, run, firstRun, pc, all_files, main_iflow, script_index, chunks,
          processed_files, iflow_chunks, component_ids, ci, pending, processed, result>>

(* ---------------------------------------------------------------- bounds *)
MaxFiles == 3
MaxComps == 3
MaxFlows == 2

(* ------------------------------------------------------------- utilities *)
ABSENT == ""
None == [none |-> TRUE]

RECURSIVE SetToSeq(_)
\* A set of numbers as the increasing sequence of its members.
SetToSeq(S) ==
    IF S = {} THEN <<>>
    ELSE LET m == CHOOSE x \in S : \A y \in S : x <= y
         IN <<m>> \o SetToSeq(S \ {m})

Range(s) == {s[i] : i \in 1..Len(s)}

RECURSIVE Flatten(_)
Flatten(ss) == IF ss = <<>> THEN <<>> ELSE Head(ss) \o Flatten(Tail(ss))

(* ------------------------------------------------------- files on disk *)
\* len(content) above which _process_related_file skips a file
MaxContentChars == 50000

File(dir, stem, ext, chars, text) ==
    [dir |-> dir, stem |-> stem, ext |-> ext, chars |-> chars, text |-> text]

\* The files a package may hold, in directory-walk order; the last one is
\* lib/Validate.gsh once more, with a content above the size limit.
FileUniverse ==
    << File("flow",   "Order",    ".iflw",   900,   <<11>>),
       File("flow",   "Other",    ".iflw",   700,   <<12>>),
       File("script", "Validate", ".groovy", 300,   <<13>>),
       File("lib",    "Validate", ".gsh",    200,   <<14>>),
       File("wsdl",   "Big",      ".wsdl",   60000, <<16>>),
       File("doc",    "README",   ".md",     100,   <<17>>),
       File("lib",    "Validate", ".gsh",    60000, <<15>>) >>

\* Path(p).name, Path(p).stem, os.path.relpath(p, base_path)
FileName(f) == f.stem \o f.ext
FileStem(f) == f.stem
RelPath(f) == f.dir \o "/" \o FileName(f)

\* str.lower() on the strings that occur as names, stems and references
Lower(s) ==
    CASE s = "Validate"        -> "validate"
      [] s = "Validate.groovy" -> "validate.groovy"
      [] s = "VALIDATE.GROOVY" -> "validate.groovy"
      [] s = "processData"     -> "processdata"
      [] s = "scriptFunction"  -> "scriptfunction"
      [] s = "Order"           -> "order"
      [] s = "Validate.gsh"    -> "validate.gsh"
      [] s = "Order.iflw"      -> "order.iflw"
      [] s = "Other"           -> "other"
      [] s = "Other.iflw"      -> "other.iflw"
      [] s = "Big"             -> "big"
      [] s = "Big.wsdl"        -> "big.wsdl"
      [] s = "README"          -> "readme"
      [] s = "README.md"       -> "readme.md"
      [] OTHER                 -> s

(* --------------------------------------------------- the document tree *)
El(tag, id, parent, src, tgt, pref, bel, comment, props) ==
    [tag |-> tag, id |-> id, parent |-> parent, sourceRef |-> src,
     targetRef |-> tgt, processRef |-> pref, bpmnElement |-> bel,
     comment |-> comment, props |-> props]

\* Components a process may hold, in document order.
CompPool ==
    << [tag |-> "startEvent",       id |-> "S1",
        props |-> << <<"label", "first">>, <<"label", "second">>,
                     <<"scriptFunction", "processData">> >>],
       [tag |-> "scriptTask",       id |-> "T1",
        props |-> << <<"script", "Validate.groovy">>, <<"groovy", "VALIDATE.GROOVY">> >>],
       [tag |-> "endEvent",         id |-> "E1",
        props |-> << <<"script", "VALIDATE.GROOVY">> >>],
       [tag |-> "exclusiveGateway", id |-> "G1", props |-> <<>>] >>

\* Ordering edges a process may hold, in document order.
FlowPool ==
    << [id |-> "F1", src |-> "S1", tgt |-> "T1",
        props |-> << <<"condition", "Validate.gsh">> >>],
       [id |-> "F2", src |-> "T1", tgt |-> "E1", props |-> <<>>],
       [id |-> "F3", src |-> "S1", tgt |-> "E1", props |-> <<>>] >>

Layouts == {"plain", "rich"}

\* The tree of a document with the first n components of CompPool (the one
\* at position bad being defective: the script task holds an XML comment, the
\* end event is written without any child), the ordering edges of FlowPool
\* selected by flowsel, and, in the rich layout, a collaboration with four
\* participants (one without id, one without processRef, two naming the same
\* process) and one messaging edge, a subProcess around component 2 and an
\* ordering edge without id.
MakeDoc(n, bad, flowsel, layout) ==
    LET rich == layout = "rich"
        pre  == <<El("definitions", ABSENT, 0, ABSENT, ABSENT, ABSENT, ABSENT, FALSE, <<>>)>>
                \o (IF rich
                    THEN << El("collaboration", "Collab", 1, ABSENT, ABSENT, ABSENT, ABSENT, FALSE, <<>>),
                            El("participant", ABSENT, 2, ABSENT, ABSENT, "P1", ABSENT, FALSE, <<>>),
                            El("participant", "Part1", 2, ABSENT, ABSENT, "P1", ABSENT, FALSE, <<>>),
                            El("participant", "Sender", 2, ABSENT, ABSENT, ABSENT, ABSENT, FALSE, <<>>),
                            El("participant", "Part2", 2, ABSENT, ABSENT, "P1", ABSENT, FALSE, <<>>),
                            El("messageFlow", "M1", 2, "Part1", "Part1", ABSENT, ABSENT, FALSE, <<>>) >>
                    ELSE <<>>)
        pIdx == Len(pre) + 1
        proc == <<El("process", "P1", 1, ABSENT, ABSENT, ABSENT, ABSENT, FALSE,
                     << <<"processType", "directCall">> >>)>>
        hasSub == rich /\ n >= 2
        sub  == IF hasSub
                THEN <<El("subProcess", "SP1", pIdx, ABSENT, ABSENT, ABSENT, ABSENT, FALSE,
                          << <<"activityType", "ErrorEventSubProcessTemplate">> >>)>>
                ELSE <<>>
        sIdx == pIdx + 1
        comps == [i \in 1..n |->
                    El(CompPool[i].tag, CompPool[i].id,
                       IF hasSub /\ i = 2 THEN sIdx ELSE pIdx,
                       ABSENT, ABSENT, ABSENT, ABSENT, i = bad /\ i = 2,
                       IF i = bad /\ i = 3 THEN <<>> ELSE CompPool[i].props)]
        fsel == SetToSeq(flowsel)
        flows == [k \in 1..Len(fsel) |->
                    El("sequenceFlow", FlowPool[fsel[k]].id, pIdx,
                       FlowPool[fsel[k]].src, FlowPool[fsel[k]].tgt, ABSENT, ABSENT, FALSE,
                       FlowPool[fsel[k]].props)]
                 \o (IF rich
                     THEN <<El("sequenceFlow", ABSENT, pIdx, "T1", "S1", ABSENT, ABSENT, FALSE, <<>>)>>
                     ELSE <<>>)
        shapes == [i \in 1..n |->
                    El("BPMNShape", "Shape_" \o CompPool[i].id, 1, ABSENT, ABSENT, ABSENT,
                       CompPool[i].id, FALSE, <<>>)]
        withId == SelectSeq(fsel, LAMBDA k : FlowPool[k].id # ABSENT)
        edges == [k \in 1..Len(withId) |->
                    El("BPMNEdge", "Edge_" \o FlowPool[withId[k]].id, 1, ABSENT, ABSENT,
                       ABSENT, FlowPool[withId[k]].id, FALSE, <<>>)]
    IN pre \o proc \o sub \o comps \o flows \o shapes \o edges

\* The marker of a first .iflw file that etree.fromstring rejects.
Unparsable == <<>>

FlowSelections == {S \in SUBSET (1..Len(FlowPool)) : Cardinality(S) <= MaxFlows}

Docs ==
    {MakeDoc(n, bad, fs, lay) :
        n \in {m \in 0..MaxComps : m <= Len(CompPool)}, bad \in {0, 2, 3},
        fs \in FlowSelections, lay \in Layouts}

\* The packages: at most MaxFiles files of FileUniverse, and the tree (or
\* the parse failure) of the first .iflw file among them.
IsIflw(f) == f.ext = ".iflw"

\* A package holds one file per path
OnePerPath(S) ==
    \A i, j \in S : i # j => RelPath(FileUniverse[i]) # RelPath(FileUniverse[j])

FileSelections ==
    {S \in SUBSET (1..Len(FileUniverse)) : Cardinality(S) <= MaxFiles /\ OnePerPath(S)}

PackageFiles(S) == [k \in 1..Cardinality(S) |-> FileUniverse[SetToSeq(S)[k]]]

Packages ==
    {[files |-> PackageFiles(S), doc |-> d] :
        S \in {T \in FileSelections : \E i \in T : IsIflw(FileUniverse[i])},
        d \in Docs \cup {Unparsable}}
    \cup
    {[files |-> PackageFiles(S), doc |-> Unparsable] :
        S \in {T \in FileSelections : \A i \in T : ~IsIflw(FileUniverse[i])}}

(* ------------------------------------------------------ python values *)
\* d[k] = v on a dict: a later assignment to a present key overwrites it.
DictSet(d, k, v) == [x \in (DOMAIN d) \cup {k} |-> IF x = k THEN v ELSE d[x]]
\* d.get(k, default)
DictGet(d, k, default) == IF k \in DOMAIN d THEN d[k] ELSE default
EmptyDict == <<>>

RECURSIVE AppendUnseen(_, _)
\* "if x and x not in seen: out.append(x); seen.add(x)" over a list of strings
AppendUnseen(out, xs) ==
    IF xs = <<>> THEN out
    ELSE AppendUnseen(IF Head(xs) # ABSENT /\ Head(xs) \notin Range(out)
                      THEN Append(out, Head(xs)) ELSE out,
                      Tail(xs))

\* Number of values of the truncated digest hexdigest()[:16], scaled down
SigSpace == 65536

RECURSIVE Digest(_, _)
Digest(h, content) ==
    IF content = <<>> THEN h
    ELSE Digest((h * 31 + Head(content)) % SigSpace, Tail(content))

\* hashlib.sha256(content.encode()).hexdigest()[:16]
Signature(content) == Digest(7, content)

(* ------------------------------------------------------ File Classifier *)
Categories ==
    << "main_iflow", "groovy_scripts", "xsd_files", "message_mappings", "wsdl_files",
       "properties_files", "xslt_files", "json_files", "manifest_files" >>

ExcludePatterns == {"_chunks.json", ".env", ".py", ".md", ".txt", ".pyc", "__pycache__"}

\* any(pattern in file for pattern in exclude_patterns): in the names of
\* FileUniverse a pattern can occur only as the extension.
Excluded(f) == \E p \in ExcludePatterns : p = f.ext

\* os.path.getsize limit of a .json file
MaxJsonBytes == 10000

\* The bucket of the elif chain, "" when no branch takes the file.
Category(f) ==
    LET ext == Lower(f.ext) IN
    CASE ext = ".iflw"                               -> "main_iflow"
      [] ext \in {".groovy", ".gsh"}                 -> "groovy_scripts"
      [] ext = ".xsd"                                -> "xsd_files"
      [] ext = ".mmap"                               -> "message_mappings"
      [] ext = ".wsdl"                               -> "wsdl_files"
      [] ext \in {".properties", ".prop", ".propdef"} -> "properties_files"
      [] ext \in {".xsl", ".xslt"}                   -> "xslt_files"
      [] ext = ".json" -> (IF f.chars <= MaxJsonBytes THEN "json_files" ELSE ABSENT)
      [] OTHER -> (IF FileName(f) = "MANIFEST.MF" THEN "manifest_files" ELSE ABSENT)

DiscoverAllFiles(files) ==
    [c \in Range(Categories) |->
        SelectSeq(files, LAMBDA f : ~Excluded(f) /\ Category(f) = c)]

\* Mutation of FindMainIflow: the last process definition discovered wins
FindLastIflow(found) ==
    IF found["main_iflow"] # <<>>
    THEN found["main_iflow"][Len(found["main_iflow"])] ELSE None

\* all_files['main_iflow'][0], None for an empty bucket
FindMainIflow(found) ==
    IF found["main_iflow"] # <<>> THEN found["main_iflow"][1] ELSE None

(* --------------------------------------------------------- Script Index *)
IndexScriptFile(index, key, relative_path, chunk_id) ==
    DictSet(index, Lower(key), [file_name |-> relative_path, chunk_id |-> chunk_id])

RECURSIVE IndexScriptsWithIds(_, _)
\* Mutation of IndexScripts: the entries are born with the id their chunk
\* is going to have
IndexScriptsWithIds(index, scripts) ==
    IF scripts = <<>> THEN index
    ELSE LET f == Head(scripts)
             id == FileStem(f) \o "_groovy_scripts"
             byName == IndexScriptFile(index, FileName(f), RelPath(f), id)
         IN IndexScriptsWithIds(IndexScriptFile(byName, FileStem(f), RelPath(f), id),
                                Tail(scripts))

RECURSIVE IndexScripts(_, _)
\* The loop of _build_script_index: name key, then stem key, chunk_id None
IndexScripts(index, scripts) ==
    IF scripts = <<>> THEN index
    ELSE LET f == Head(scripts)
             byName == IndexScriptFile(index, FileName(f), RelPath(f), ABSENT)
         IN IndexScripts(IndexScriptFile(byName, FileStem(f), RelPath(f), ABSENT),
                         Tail(scripts))

\* Mutation of BuildScriptIndex: nothing is indexed ahead of the components
BuildScriptIndexLater(index, found) == index

BuildScriptIndex(index, found) == IndexScripts(index, found["groovy_scripts"])

\* The file of a relative path, for Path(chunk['file_name']).name and .stem
FileOfPath(rel) == CHOOSE f \in Range(FileUniverse) : RelPath(f) = rel
ChunkFileName(chunk) == FileName(FileOfPath(chunk.file_name))
ChunkFileStem(chunk) == FileStem(FileOfPath(chunk.file_name))

RECURSIVE BackfillKeys(_, _, _)
BackfillKeys(index, keys, id) ==
    IF keys = <<>> THEN index
    ELSE BackfillKeys(IF Head(keys) \in DOMAIN index
                      THEN [index EXCEPT ![Head(keys)].chunk_id = id] ELSE index,
                      Tail(keys), id)

UpdateScriptIndexWithChunk(index, chunk) ==
    BackfillKeys(index, <<Lower(ChunkFileName(chunk)), Lower(ChunkFileStem(chunk))>>, chunk.id)

(* ------------------------------------------------------ tree queries *)
Aliases == <<"bpmn2", "bpmn">>

\* The namespace URI an alias of the code's namespaces dict is bound to
AliasUri(ns) == IF ns \in {"bpmn2", "bpmn"} THEN "MODEL" ELSE "DI"
\* The namespace URI of an element
TagUri(tag) == IF tag \in {"BPMNShape", "BPMNEdge"} THEN "DI" ELSE "MODEL"

Positions(doc) == [i \in 1..Len(doc) |-> i]

\* root.xpath('//ns:tag'): the positions of the elements of that qualified
\* name, in document order
XPath(doc, ns, tag) ==
    SelectSeq(Positions(doc),
              LAMBDA i : doc[i].tag = tag /\ TagUri(doc[i].tag) = AliasUri(ns))

\* The same query once per alias of the list ['bpmn2', 'bpmn'], appended
XPathAliases(doc, tag) ==
    Flatten([a \in 1..Len(Aliases) |-> XPath(doc, Aliases[a], tag)])

RECURSIVE IsAncestor(_, _, _)
\* a is a proper ancestor of position i
IsAncestor(doc, a, i) ==
    IF i = 0 \/ doc[i].parent = 0 THEN FALSE
    ELSE doc[i].parent = a \/ IsAncestor(doc, a, doc[i].parent)

\* element.iter(): the element and its descendants, in document order
Iter(doc, pos) == SelectSeq(Positions(doc), LAMBDA i : i = pos \/ IsAncestor(doc, pos, i))

Ids(doc, poss) == [k \in 1..Len(poss) |-> doc[poss[k]].id]

RECURSIVE UniqueById(_, _, _)
\* keeps the first position of each id, dropping positions without id
UniqueById(doc, out, poss) ==
    IF poss = <<>> THEN out
    ELSE UniqueById(doc,
                    IF doc[Head(poss)].id # ABSENT
                       /\ doc[Head(poss)].id \notin Range(Ids(doc, out))
                    THEN Append(out, Head(poss)) ELSE out,
                    Tail(poss))

(* ------------------------------------------------- Ownership resolution *)
RECURSIVE FindOwningContainerId(_, _)
\* Mutation of FindOwningProcessId: a subProcess ancestor ends the walk too
FindOwningContainerId(doc, pos) ==
    LET parent == doc[pos].parent IN
    IF parent = 0 THEN ABSENT
    ELSE IF doc[parent].tag \in {"process", "subProcess"} THEN doc[parent].id
    ELSE FindOwningContainerId(doc, parent)

RECURSIVE FindOwningProcessId(_, _)
\* The walk over getparent() up to the first element of local name 'process'
FindOwningProcessId(doc, pos) ==
    LET parent == doc[pos].parent IN
    IF parent = 0 THEN ABSENT
    ELSE IF doc[parent].tag = "process" THEN doc[parent].id
    ELSE FindOwningProcessId(doc, parent)

RECURSIVE MapParticipantsLastWins(_, _, _)
\* Mutation of MapParticipants: a later participant replaces the entry
MapParticipantsLastWins(doc, map, poss) ==
    IF poss = <<>> THEN map
    ELSE LET p == doc[Head(poss)] IN
         MapParticipantsLastWins(doc,
                         IF p.processRef # ABSENT /\ p.id # ABSENT
                         THEN DictSet(map, p.processRef, p.id) ELSE map,
                         Tail(poss))

RECURSIVE MapParticipants(_, _, _)
\* "if pref and pid and pref not in process_to_participant" over the scan
MapParticipants(doc, map, poss) ==
    IF poss = <<>> THEN map
    ELSE LET p == doc[Head(poss)] IN
         MapParticipants(doc,
                         IF p.processRef # ABSENT /\ p.id # ABSENT
                            /\ p.processRef \notin DOMAIN map
                         THEN DictSet(map, p.processRef, p.id) ELSE map,
                         Tail(poss))

BuildProcessToParticipantMap(doc) ==
    MapParticipants(doc, EmptyDict, XPathAliases(doc, "participant"))

\* Mutation of ResolveParticipantForElement: the component side of the
\* ownership lookup stops at the nearest container, process or subProcess
ResolveParticipantByContainer(doc, pos) ==
    LET proc_id == FindOwningContainerId(doc, pos) IN
    IF proc_id = ABSENT THEN ABSENT
    ELSE DictGet(BuildProcessToParticipantMap(doc), proc_id, ABSENT)

\* _find_owning_process_id composed with the participant map
ResolveParticipantForElement(doc, pos) ==
    LET proc_id == FindOwningProcessId(doc, pos) IN
    IF proc_id = ABSENT THEN ABSENT
    ELSE DictGet(BuildProcessToParticipantMap(doc), proc_id, ABSENT)

(* ---------------------------------------------------------------- chunks *)
\* A chunk dict; a key the code leaves out of a variant holds its empty value.
\* content is the chunk's markup or text ('content' / 'complete_bpmn_xml'):
\* the list of its serialized fragments.
Chunk(id, file_name, file_type, component_id, component_type, content, description) ==
    [id |-> id, file_name |-> file_name, file_type |-> file_type,
     component_id |-> component_id, component_type |-> component_type,
     activity_type |-> ABSENT, content |-> content, description |-> description,
     properties |-> EmptyDict, related_scripts |-> <<>>, unresolved_script_refs |-> <<>>,
     participant |-> ABSENT, sequence_flows |-> <<>>, connections |-> <<>>,
     participants |-> [source |-> ABSENT, target |-> ABSENT],
     signature |-> Signature(content)]

\* Mutation of ChunkId: the id depends on the run that made it
ChunkIdPerRun(file, suffix) ==
    FileStem(file) \o "_" \o suffix \o (IF run = 2 THEN "_2" ELSE "")

\* f"{Path(iflow_file).stem}_{suffix}"
ChunkId(file, suffix) == FileStem(file) \o "_" \o suffix

\* etree.tostring(element): the markup of the element at a position
ToMarkup(pos) == pos
\* _clean_process_xml(etree.tostring(element)): the markup without namespace
\* prefixes, re-indented; a text other than the serialization itself
CleanProcessXml(pos) == 100 + pos

\* Mutation of CreateFullIflowChunk: the content is the re-serialized root,
\* not the text read from the file
CreateFullIflowChunkReserialized(file) ==
    Chunk(ChunkId(file, "full_xml"), RelPath(file), "bpmn_full_xml", "full_xml",
          "bpmnDefinitions", <<ToMarkup(1)>>, "Complete iFlow BPMN XML")

CreateFullIflowChunk(file) ==
    Chunk(ChunkId(file, "full_xml"), RelPath(file), "bpmn_full_xml", "full_xml",
          "bpmnDefinitions", file.text, "Complete iFlow BPMN XML")

(* -------------------------------------------------- Component Extractor *)
ComponentTypes ==
    << "startEvent", "endEvent", "serviceTask", "callActivity", "scriptTask", "userTask",
       "manualTask", "receiveTask", "sendTask", "exclusiveGateway", "parallelGateway",
       "inclusiveGateway", "eventBasedGateway", "participant", "boundaryEvent",
       "intermediateCatchEvent", "intermediateThrowEvent" >>

ExtractAllComponentIds(doc) ==
    AppendUnseen(<<>>,
        Flatten([t \in 1..Len(ComponentTypes) |->
                    Ids(doc, XPathAliases(doc, ComponentTypes[t]))]))

\* root.xpath('//*[@id="component_id"]'), in document order
ById(doc, id) == SelectSeq(Positions(doc), LAMBDA i : doc[i].id = id)

\* Mutation of OutgoingMatches: the incoming edges are taken as well
OutgoingOrIncomingMatches(doc, component_id) ==
    SelectSeq(XPathAliases(doc, "sequenceFlow"),
              LAMBDA i : doc[i].sourceRef = component_id \/ doc[i].targetRef = component_id)

\* The sequenceFlow positions with the given sourceRef, once per alias
OutgoingMatches(doc, component_id) ==
    SelectSeq(XPathAliases(doc, "sequenceFlow"),
              LAMBDA i : doc[i].sourceRef = component_id)

DiFor(doc, tag, id) ==
    SelectSeq(XPath(doc, "bpmndi", tag), LAMBDA i : doc[i].bpmnElement = id)

ExtractComponentElements(doc, component_id) ==
    LET found    == ById(doc, component_id)
        outgoing == UniqueById(doc, <<>>, OutgoingMatches(doc, component_id))
        flowIds  == Ids(doc, outgoing)
    IN [main_component |-> IF found # <<>> THEN found[1] ELSE 0,
        outgoing_flows |-> outgoing,
        bpmn_shapes    |-> UniqueById(doc, <<>>, DiFor(doc, "BPMNShape", component_id)),
        bpmn_edges     |-> UniqueById(doc, <<>>,
                              Flatten([k \in 1..Len(flowIds) |->
                                          DiFor(doc, "BPMNEdge", flowIds[k])]))]

BuildCompleteComponentXml(doc, elements) ==
    LET flowIds == Range(Ids(doc, elements.outgoing_flows))
        parts == (IF elements.main_component # 0 THEN <<elements.main_component>> ELSE <<>>)
                 \o elements.outgoing_flows
                 \o elements.bpmn_shapes
                 \o SelectSeq(elements.bpmn_edges, LAMBDA e : doc[e].bpmnElement \in flowIds)
    IN [k \in 1..Len(parts) |-> ToMarkup(parts[k])]

\* element.iter() also yields comment nodes, whose tag is not a string:
\* child.tag.endswith raises AttributeError
PropertiesRaise(doc, pos) == \E i \in Range(Iter(doc, pos)) : doc[i].comment

\* The key/value pairs of the property children under an element, in
\* document order
PropertyPairs(doc, pos) ==
    Flatten([k \in 1..Len(Iter(doc, pos)) |-> doc[Iter(doc, pos)[k]].props])

RECURSIVE AssignPairs(_, _)
AssignPairs(d, pairs) ==
    IF pairs = <<>> THEN d
    ELSE AssignPairs(IF Head(pairs)[1] # ABSENT /\ Head(pairs)[2] # ABSENT
                     THEN DictSet(d, Head(pairs)[1], Head(pairs)[2]) ELSE d,
                     Tail(pairs))

ExtractComponentProperties(doc, pos) == AssignPairs(EmptyDict, PropertyPairs(doc, pos))

GetComponentType(doc, pos) == doc[pos].tag

\* The truth value of an lxml element: whether it has a child node (property
\* children, a comment, nested elements)
HasChildren(doc, pos) ==
    \/ doc[pos].props # <<>>
    \/ doc[pos].comment
    \/ \E j \in 1..Len(doc) : doc[j].parent = pos

GenerateComponentDescription(doc, pos) ==
    LET properties == ExtractComponentProperties(doc, pos) IN
    GetComponentType(doc, pos)
    \o (IF "activityType" \in DOMAIN properties
        THEN " with activityType=" \o properties["activityType"] ELSE "")

\* './/ifl:property[key="activityType"]/value' names key and value without a
\* prefix; the key and value children of a tree are ifl-qualified, so the
\* query selects nothing
ExtractActivityType(doc, pos) == ABSENT

\* Descendants whose local tag is 'script', as inline entries
ExtractInlineScripts(doc, pos) ==
    LET scripts == SelectSeq(Iter(doc, pos), LAMBDA i : doc[i].tag = "script") IN
    [k \in 1..Len(scripts) |->
        [relation |-> "inline", file_name |-> ABSENT, file_type |-> ABSENT,
         chunk_id |-> ABSENT, content |-> ToMarkup(scripts[k])]]

(* --------------------------------------------- Script Reference Resolver *)
ScriptLiterals == {"Validate.groovy", "Validate.gsh"}
\* val.lower().endswith(('.groovy', '.gsh'))
EndsWithScriptExt(val) == Lower(val) \in {"validate.groovy", "validate.gsh"}
\* any(h in key.lower() for h in ['script', 'groovy', 'gsh'])
KeyHintsScript(key) == Lower(key) \in {"script", "scriptfunction", "groovy"}
\* Path(lc).stem
StemOf(lc) == IF lc \in {"validate.groovy", "validate.gsh"} THEN "validate" ELSE lc

\* Mutation of MarkupMatches: the markup is not scanned
MarkupMatchesNone(doc, content) == <<>>

\* re.findall(r"[A-Za-z0-9_\-/]+\.(?:groovy|gsh)", component_xml): the markup
\* of a fragment holds the property values under it
MarkupMatches(doc, content) ==
    LET pairs == Flatten([k \in 1..Len(content) |-> PropertyPairs(doc, content[k])])
        hits  == SelectSeq(pairs, LAMBDA kv : kv[2] \in ScriptLiterals)
    IN [k \in 1..Len(hits) |-> hits[k][2]]

\* The properties loop over dict items, in insertion order
PropertyCandidates(doc, pos, properties) ==
    LET keys == AppendUnseen(<<>>, [k \in 1..Len(PropertyPairs(doc, pos)) |->
                                      PropertyPairs(doc, pos)[k][1]])
        hits == SelectSeq(keys, LAMBDA key :
                    key \in DOMAIN properties
                    /\ (EndsWithScriptExt(properties[key]) \/ KeyHintsScript(key)))
    IN [k \in 1..Len(hits) |-> properties[hits[k]]]

\* Mutation of LookupEntry: the stem key is tried before the full name
LookupEntryStemFirst(index, lc, stem) ==
    IF stem \in DOMAIN index THEN index[stem]
    ELSE IF lc \in DOMAIN index THEN index[lc] ELSE None

\* self.script_index.get(lc) or self.script_index.get(stem)
LookupEntry(index, lc, stem) ==
    IF lc \in DOMAIN index THEN index[lc]
    ELSE IF stem \in DOMAIN index THEN index[stem] ELSE None

\* Mutation of AlreadySeen: no candidate is taken for a repetition
NeverSeen(lc, seen) == FALSE

\* "if lc in seen: continue"
AlreadySeen(lc, seen) == lc \in seen

RECURSIVE ResolveCandidates(_, _, _, _)
ResolveCandidates(index, cands, seen, acc) ==
    IF cands = <<>> THEN acc
    ELSE LET cand == Head(cands)
             lc   == Lower(cand)
             stem == StemOf(lc)
             entry == LookupEntry(index, lc, stem)
             hit  == entry # None
         IN IF AlreadySeen(lc, seen) THEN ResolveCandidates(index, Tail(cands), seen, acc)
            ELSE ResolveCandidates(index, Tail(cands), seen \cup {lc},
                    IF hit
                    THEN [acc EXCEPT !.resolved = Append(@,
                            [relation |-> "file", file_name |-> entry.file_name,
                             file_type |-> "groovy_scripts", chunk_id |-> entry.chunk_id,
                             content |-> 0])]
                    ELSE [acc EXCEPT !.unresolved = Append(@, cand)])

ResolveComponentScriptFiles(index, doc, pos, properties, complete_xml) ==
    ResolveCandidates(index,
                      PropertyCandidates(doc, pos, properties) \o MarkupMatches(doc, complete_xml),
                      {}, [resolved |-> <<>>, unresolved |-> <<>>])

OutgoingFlowsData(doc, flows) ==
    [k \in 1..Len(flows) |->
        [id |-> doc[flows[k]].id, sourceRef |-> doc[flows[k]].sourceRef,
         targetRef |-> doc[flows[k]].targetRef]]

\* The chunk of a component, None when its element is not found, when the
\* test "not component_elements['main_component']" takes a childless element
\* for a missing one, or when a step of building it raises (the except branch
\* of _create_component_chunk).
CreateComponentChunk(index, doc, component_id, file) ==
    LET elements == ExtractComponentElements(doc, component_id)
        main     == elements.main_component
        xml      == BuildCompleteComponentXml(doc, elements)
        props    == ExtractComponentProperties(doc, main)
        refs     == ResolveComponentScriptFiles(index, doc, main, props, xml)
    IN IF main = 0 THEN None
       ELSE IF ~HasChildren(doc, main) THEN None
       ELSE IF PropertiesRaise(doc, main) THEN None
       ELSE [Chunk(ChunkId(file, component_id), RelPath(file), "bpmn", component_id,
                   GetComponentType(doc, main), xml, GenerateComponentDescription(doc, main))
             EXCEPT !.properties = props,
                    !.activity_type = ExtractActivityType(doc, main),
                    !.related_scripts = ExtractInlineScripts(doc, main) \o refs.resolved,
                    !.unresolved_script_refs = refs.unresolved,
                    !.participant = ResolveParticipantForElement(doc, main),
                    !.sequence_flows = OutgoingFlowsData(doc, elements.outgoing_flows),
                    !.connections = Ids(doc, elements.outgoing_flows)]

(* ---------------------------------------------------- Flow Graph Builder *)
\* element_process.get(ref): the owning process of the first element with
\* that id, nothing when no element has it
ElementProcess(doc, ref) ==
    IF ref # ABSENT /\ ById(doc, ref) # <<>>
    THEN FindOwningProcessId(doc, ById(doc, ref)[1]) ELSE ABSENT

ParticipantOfRef(doc, ref) ==
    LET proc == ElementProcess(doc, ref) IN
    IF proc # ABSENT THEN DictGet(BuildProcessToParticipantMap(doc), proc, ABSENT) ELSE ABSENT

\* flow.get('id') or default
IdOr(doc, pos, default) == IF doc[pos].id # ABSENT THEN doc[pos].id ELSE default

FlowContent(doc, pos, flow_id) ==
    LET parts == <<pos>> \o DiFor(doc, "BPMNEdge", flow_id) IN
    [k \in 1..Len(parts) |-> ToMarkup(parts[k])]

SequenceFlowChunk(doc, pos, file) ==
    LET flow_id == IdOr(doc, pos, "sequenceFlow")
        src == doc[pos].sourceRef
        tgt == doc[pos].targetRef
    IN [Chunk(ChunkId(file, flow_id), RelPath(file), "bpmn_sequence_flow", flow_id,
              "sequenceFlow", FlowContent(doc, pos, flow_id),
              "Sequence Flow " \o src \o "->" \o tgt)
        EXCEPT !.connections = <<src, tgt>>,
               !.participants = [source |-> ParticipantOfRef(doc, src),
                                 target |-> ParticipantOfRef(doc, tgt)]]

\* One chunk per element the loop over both aliases meets
ExtractSequenceFlows(doc, file) ==
    LET flows == XPathAliases(doc, "sequenceFlow") IN
    [k \in 1..Len(flows) |-> SequenceFlowChunk(doc, flows[k], file)]

MessageFlowChunk(doc, pos, file) ==
    LET flow_id == IdOr(doc, pos, "messageFlow") IN
    [Chunk(ChunkId(file, flow_id), RelPath(file), "bpmn_message_flow", flow_id,
           "messageFlow", FlowContent(doc, pos, flow_id), "Message Flow " \o flow_id)
     EXCEPT !.connections = <<doc[pos].sourceRef, doc[pos].targetRef>>]

ExtractMessageFlows(doc, file) ==
    LET flows == XPathAliases(doc, "messageFlow") IN
    [k \in 1..Len(flows) |-> MessageFlowChunk(doc, flows[k], file)]

(* ------------------------------------------- Process/Subprocess Extractor *)
\* What the GPT-backed generate_description may answer
Descriptions == {"description A", "description B"}

RECURSIVE FirstByIdOr(_, _, _, _)
\* "if id in processed_ids: continue", with the default id of an id-less element
FirstByIdOr(doc, out, poss, default) ==
    IF poss = <<>> THEN out
    ELSE FirstByIdOr(doc,
            IF IdOr(doc, Head(poss), default)
                 \in {IdOr(doc, out[k], default) : k \in 1..Len(out)}
            THEN out ELSE Append(out, Head(poss)),
            Tail(poss), default)

\* Mutation of DirectProperties: the properties of all descendants are taken
DescendantProperties(doc, pos) == AssignPairs(EmptyDict, PropertyPairs(doc, pos))

\* './bpmn2:extensionElements/ifl:property' of the container itself
DirectProperties(doc, pos) == AssignPairs(EmptyDict, doc[pos].props)

ContainerChunk(doc, pos, file, tag, default, typeKey, description) ==
    LET id == IdOr(doc, pos, default)
        properties == DirectProperties(doc, pos)
    IN [Chunk(ChunkId(file, id), RelPath(file), "bpmn", id, tag,
              <<CleanProcessXml(pos)>>, description)
        EXCEPT !.properties = properties,
               !.activity_type = DictGet(properties, typeKey, ABSENT)]

\* Mutation of ExtractProcesses: both aliases are queried, no id is remembered
ExtractProcessesPerAlias(doc, file, description) ==
    LET procs == XPathAliases(doc, "process") IN
    [k \in 1..Len(procs) |->
        ContainerChunk(doc, procs[k], file, "process", "process", "processType", description)]

ExtractProcesses(doc, file, description) ==
    LET procs == FirstByIdOr(doc, <<>>, XPath(doc, "bpmn2", "process"), "process") IN
    [k \in 1..Len(procs) |->
        ContainerChunk(doc, procs[k], file, "process", "process", "processType", description)]

ExtractSubprocesses(doc, file, description) ==
    LET subs == FirstByIdOr(doc, <<>>, XPath(doc, "bpmn2", "subProcess"), "subprocess") IN
    [k \in 1..Len(subs) |->
        ContainerChunk(doc, subs[k], file, "subProcess", "subprocess", "activityType",
                       description)]

(* ------------------------------------------------------ auxiliary files *)
SkipPatterns ==
    {"_chunks.json", "enhanced_iflow_chunks.json", "clean_iflow_chunks.json",
     ".env", ".py", ".md", ".txt", ".pyc"}

AllowedExtensions ==
    {".groovy", ".gsh", ".xsd", ".mmap", ".wsdl", ".properties", ".prop", ".propdef",
     ".xsl", ".xslt"}

\* The early returns of _process_related_file
RelatedFileSkipped(f) ==
    \/ \E p \in SkipPatterns : p = f.ext
    \/ Lower(f.ext) = ".json" /\ f.chars > MaxJsonBytes
    \/ Lower(f.ext) # ".json" /\ Lower(f.ext) \notin AllowedExtensions
       /\ FileName(f) # "MANIFEST.MF"
    \/ f.chars > MaxContentChars

FileDescription(file_type) ==
    CASE file_type = "groovy_scripts" -> "Groovy script for integration flow processing"
      [] file_type = "xsd_files"      -> "XSD schema definition for data validation"
      [] OTHER                        -> file_type \o " file"

\* The chunk of an auxiliary file, None when the file is skipped
ProcessRelatedFile(f, file_type) ==
    IF RelatedFileSkipped(f) THEN None
    ELSE [Chunk(ChunkId(f, file_type), RelPath(f), file_type, ABSENT, ABSENT, f.text,
                FileDescription(file_type))
          EXCEPT !.component_id = ABSENT]

\* The (file, file_type) pairs in the order _process_all_related_files takes them
RelatedFiles(found) ==
    Flatten([c \in 1..Len(Categories) |->
                IF Categories[c] = "main_iflow" THEN <<>>
                ELSE [k \in 1..Len(found[Categories[c]]) |->
                        [file |-> found[Categories[c]][k], file_type |-> Categories[c]]]])

(* ----------------------------------------------------- Coverage Verifier *)
RECURSIVE SumLens(_, _)
SumLens(found, cats) ==
    IF cats = <<>> THEN 0 ELSE Len(found[Head(cats)]) + SumLens(found, Tail(cats))

\* Mutation of Percentage: an empty total counts as nothing covered
PercentageZeroWhenEmpty(count, total) ==
    IF total > 0 THEN (count * 100) \div total ELSE 0

\* (processed / total * 100) if total > 0 else 100, as a whole percentage
Percentage(count, total) == IF total > 0 THEN (count * 100) \div total ELSE 100

CountIn(files, done) == Len(SelectSeq(files, LAMBDA f : f \in Range(done)))

VerifyCompleteCoverage(found, done) ==
    LET total == SumLens(found, Categories) IN
    [total_files_discovered |-> total,
     total_files_processed  |-> Len(done),
     coverage_percentage    |-> Percentage(Len(done), total),
     file_type_breakdown    |->
        [c \in Range(Categories) |->
            [total     |-> Len(found[c]),
             processed |-> CountIn(found[c], done),
             coverage  |-> Percentage(CountIn(found[c], done), Len(found[c]))]],
     missing_files          |->
        Flatten([c \in 1..Len(Categories) |->
                    SelectSeq(found[Categories[c]], LAMBDA f : f \notin Range(done))])]

(* ------------------------------------------------------ the run, step by step *)
NoFiles == [c \in Range(Categories) |-> <<>>]

\* EnhancedIFlowChunker(base_path): a fresh run context
FreshContext ==
    /\ pc = "discover"
    /\ all_files = NoFiles
    /\ main_iflow = None
    /\ script_index = EmptyDict
    /\ chunks = <<>>
    /\ processed_files = <<>>
    /\ iflow_chunks = <<>>
    /\ component_ids = <<>>
    /\ ci = 0
    /\ pending = <<>>
    /\ processed = <<>>
    /\ result = None

Init ==
    /\ pkg \in Packages
    /\ run = 1
    /\ firstRun = {}
    /\ FreshContext

\* Step 1: all_files = self._discover_all_files()
Discover ==
    /\ pc = "discover"
    /\ all_files' = DiscoverAllFiles(pkg.files)
    /\ pc' = "index"
    /\ UNCHANGED <<pkg, run, firstRun, main_iflow, script_index, chunks, processed_files,
                   iflow_chunks, component_ids, ci, pending, processed, result>>

\* Step 2, first half: _find_main_iflow and _build_script_index; without a
\* main document the run goes on to the related files
FindMainAndIndex ==
    /\ pc = "index"
    /\ main_iflow' = FindMainIflow(all_files)
    /\ script_index' = BuildScriptIndex(script_index, all_files)
    /\ IF FindMainIflow(all_files) # None
       THEN pc' = "parse" /\ UNCHANGED pending
       ELSE pc' = "related" /\ pending' = RelatedFiles(all_files)
    /\ UNCHANGED <<pkg, run, firstRun, all_files, chunks, processed_files, iflow_chunks,
                   component_ids, ci, processed, result>>

\* _process_main_iflow_with_components: etree.fromstring raises, the except
\* branch logs, the empty list is returned; the caller extends self.chunks
\* with it and appends main_iflow to self.processed_files
ParseFails ==
    /\ pc = "parse"
    /\ pkg.doc = Unparsable
    /\ chunks' = chunks \o iflow_chunks
    /\ processed_files' = Append(processed_files, main_iflow)
    /\ pc' = "related"
    /\ pending' = RelatedFiles(all_files)
    /\ UNCHANGED <<pkg, run, firstRun, all_files, main_iflow, script_index, iflow_chunks,
                   component_ids, ci, processed, result>>

\* read, parse, and the full-XML chunk
ParseMain ==
    /\ pc = "parse"
    /\ pkg.doc # Unparsable
    /\ iflow_chunks' = Append(iflow_chunks, CreateFullIflowChunk(main_iflow))
    /\ pc' = "component_ids"
    /\ UNCHANGED <<pkg, run, firstRun, all_files, main_iflow, script_index, chunks,
                   processed_files, component_ids, ci, pending, processed, result>>

ExtractComponentIds ==
    /\ pc = "component_ids"
    /\ component_ids' = ExtractAllComponentIds(pkg.doc)
    /\ ci' = 1
    /\ pc' = IF ExtractAllComponentIds(pkg.doc) = <<>> THEN "message_flows" ELSE "components"
    /\ UNCHANGED <<pkg, run, firstRun, all_files, main_iflow, script_index, chunks,
                   processed_files, iflow_chunks, pending, processed, result>>

\* Mutation of AfterComponent: a component without chunk ends the loop
AfterComponentBreak(i, chunk, n) == IF chunk = None THEN n + 1 ELSE i + 1

\* The position the component loop takes next: a component without chunk is
\* passed over ("if not component_chunk: continue")
AfterComponent(i, chunk, n) == i + 1

\* One iteration of "for component_id in component_ids"
ComponentStep ==
    /\ pc = "components"
    /\ ci <= Len(component_ids)
    /\ LET chunk == CreateComponentChunk(script_index, pkg.doc, component_ids[ci], main_iflow)
           next  == AfterComponent(ci, chunk, Len(component_ids))
       IN /\ iflow_chunks' = IF chunk = None THEN iflow_chunks ELSE Append(iflow_chunks, chunk)
          /\ ci' = next
          /\ pc' = IF next > Len(component_ids) THEN "message_flows" ELSE "components"
    /\ UNCHANGED <<pkg, run, firstRun, all_files, main_iflow, script_index, chunks,
                   processed_files, component_ids, pending, processed, result>>

\* Mutation of Extend: the chunks of a pass are put in front
ExtendInFront(list, more) == more \o list

\* chunks.extend(more)
Extend(list, more) == list \o more

MessageFlowPass ==
    /\ pc = "message_flows"
    /\ iflow_chunks' = Extend(iflow_chunks, ExtractMessageFlows(pkg.doc, main_iflow))
    /\ pc' = "sequence_flows"
    /\ UNCHANGED <<pkg, run, firstRun, all_files, main_iflow, script_index, chunks,
                   processed_files, component_ids, ci, pending, processed, result>>

SequenceFlowPass ==
    /\ pc = "sequence_flows"
    /\ iflow_chunks' = Extend(iflow_chunks, ExtractSequenceFlows(pkg.doc, main_iflow))
    /\ pc' = "processes"
    /\ UNCHANGED <<pkg, run, firstRun, all_files, main_iflow, script_index, chunks,
                   processed_files, component_ids, ci, pending, processed, result>>

ProcessPass ==
    /\ pc = "processes"
    /\ \E d \in Descriptions :
          iflow_chunks' = Extend(iflow_chunks, ExtractProcesses(pkg.doc, main_iflow, d))
    /\ pc' = "subprocesses"
    /\ UNCHANGED <<pkg, run, firstRun, all_files, main_iflow, script_index, chunks,
                   processed_files, component_ids, ci, pending, processed, result>>

SubprocessPass ==
    /\ pc = "subprocesses"
    /\ \E d \in Descriptions :
          iflow_chunks' = Extend(iflow_chunks, ExtractSubprocesses(pkg.doc, main_iflow, d))
    /\ pc' = "return_main"
    /\ UNCHANGED <<pkg, run, firstRun, all_files, main_iflow, script_index, chunks,
                   processed_files, component_ids, ci, pending, processed, result>>

\* self.chunks.extend(iflow_chunks); self.processed_files.append(main_iflow)
ReturnMain ==
    /\ pc = "return_main"
    /\ chunks' = chunks \o iflow_chunks
    /\ processed_files' = Append(processed_files, main_iflow)
    /\ pc' = "related"
    /\ pending' = RelatedFiles(all_files)
    /\ UNCHANGED <<pkg, run, firstRun, all_files, main_iflow, script_index, iflow_chunks,
                   component_ids, ci, processed, result>>

\* The index after a script file got its chunk: _process_related_file indexes
\* the file name with the chunk id, _update_script_index_with_chunk backfills
IndexAfterChunk(index, f, file_type, chunk) ==
    IF file_type = "groovy_scripts"
    THEN UpdateScriptIndexWithChunk(
             IndexScriptFile(index, FileName(f), RelPath(f), chunk.id), chunk)
    ELSE index

\* Mutation of EmittedAfterBackfill: the references of the emitted chunks
\* share the index entries and show their chunk ids
EmittedSharingEntries(cs, index) ==
    LET Filled(file_name) ==
            {key \in DOMAIN index :
                index[key].file_name = file_name /\ index[key].chunk_id # ABSENT}
    IN [k \in 1..Len(cs) |->
          LET refs == cs[k].related_scripts IN
          [cs[k] EXCEPT !.related_scripts =
              [j \in 1..Len(refs) |->
                  IF refs[j].relation = "file" /\ Filled(refs[j].file_name) # {}
                  THEN [refs[j] EXCEPT !.chunk_id =
                           index[CHOOSE key \in Filled(refs[j].file_name) : TRUE].chunk_id]
                  ELSE refs[j]]]]

\* The emitted chunks once the index entries of a script received its chunk
\* id: a resolved reference was built from copies of the entry's strings
\* ('file_name': entry['file_name'], 'chunk_id': entry.get('chunk_id') or ''),
\* so writing entry['chunk_id'] reaches no chunk
EmittedAfterBackfill(cs, index) == cs

\* Mutation of EmitChunk: a chunk whose id is in the list takes the place of
\* the chunk that has it
EmitChunkById(cs, chunk) ==
    IF \E k \in 1..Len(cs) : cs[k].id = chunk.id
    THEN [k \in 1..Len(cs) |-> IF cs[k].id = chunk.id THEN chunk ELSE cs[k]]
    ELSE Append(cs, chunk)

\* self.chunks.append(chunk)
EmitChunk(cs, chunk) == Append(cs, chunk)

\* One iteration of the loops of _process_all_related_files
RelatedStep ==
    /\ pc = "related"
    /\ pending # <<>>
    /\ LET f == Head(pending).file
           file_type == Head(pending).file_type
           chunk == ProcessRelatedFile(f, file_type)
       IN IF chunk # None
          THEN /\ chunks' = EmittedAfterBackfill(EmitChunk(chunks, chunk),
                                 IndexAfterChunk(script_index, f, file_type, chunk))
               /\ processed' = Append(processed, f)
               /\ script_index' = IndexAfterChunk(script_index, f, file_type, chunk)
          ELSE UNCHANGED <<chunks, processed, script_index>>
    /\ pending' = Tail(pending)
    /\ UNCHANGED <<pkg, run, firstRun, pc, all_files, main_iflow, processed_files,
                   iflow_chunks, component_ids, ci, result>>

\* self.processed_files.extend(related_files)
ReturnRelated ==
    /\ pc = "related"
    /\ pending = <<>>
    /\ processed_files' = processed_files \o processed
    /\ pc' = "coverage"
    /\ UNCHANGED <<pkg, run, firstRun, all_files, main_iflow, script_index, chunks,
                   iflow_chunks, component_ids, ci, pending, processed, result>>

\* Step 4 and the returned dict
VerifyCoverage ==
    /\ pc = "coverage"
    /\ result' = [total_chunks    |-> Len(chunks),
                  processed_files |-> Len(processed_files),
                  coverage_report |-> VerifyCompleteCoverage(all_files, processed_files),
                  chunks          |-> chunks]
    /\ pc' = "done"
    /\ UNCHANGED <<pkg, run, firstRun, all_files, main_iflow, script_index, chunks,
                   processed_files, iflow_chunks, component_ids, ci, pending, processed>>

IdSignatures(cs) == {<<cs[k].id, cs[k].signature>> : k \in 1..Len(cs)}

\* The same package is decomposed again by a new EnhancedIFlowChunker
SecondRun ==
    /\ pc = "done"
    /\ run = 1
    /\ run' = 2
    /\ firstRun' = IdSignatures(result.chunks)
    /\ pc' = "discover"
    /\ all_files' = NoFiles
    /\ main_iflow' = None
    /\ script_index' = EmptyDict
    /\ chunks' = <<>>
    /\ processed_files' = <<>>
    /\ iflow_chunks' = <<>>
    /\ component_ids' = <<>>
    /\ ci' = 0
    /\ pending' = <<>>
    /\ processed' = <<>>
    /\ result' = None
    /\ UNCHANGED pkg

Next ==
    \/ Discover
    \/ FindMainAndIndex
    \/ ParseFails
    \/ ParseMain
    \/ ExtractComponentIds
    \/ ComponentStep
    \/ MessageFlowPass
    \/ SequenceFlowPass
    \/ ProcessPass
    \/ SubprocessPass
    \/ ReturnMain
    \/ RelatedStep
    \/ ReturnRelated
    \/ VerifyCoverage
    \/ SecondRun

Spec == Init /\ [][Next]_vars

(* ------------------------------------------------------------ properties *)
Done == pc = "done"
Parsed == main_iflow # None /\ pkg.doc # Unparsable

OfType(cs, file_type) == SelectSeq(cs, LAMBDA c : c.file_type = file_type)
ComponentChunks(cs) ==
    SelectSeq(cs, LAMBDA c : c.file_type = "bpmn" /\ c.component_type \in Range(ComponentTypes))
ElementsOf(doc, tag) == {i \in 1..Len(doc) : doc[i].tag = tag}
NoSharedId(cs) == \A j, k \in 1..Len(cs) : j # k => cs[j].id # cs[k].id
CountFor(cs, component_id) == Cardinality({k \in 1..Len(cs) : cs[k].component_id = component_id})

\* C1: after a run over a parsable document the output holds exactly one
\* ordering-edge chunk per distinct sequenceFlow id, and no two ordering-edge
\* chunks share an id.
C1_OneChunkPerSequenceFlow ==
    (Done /\ Parsed) =>
        LET out == OfType(result.chunks, "bpmn_sequence_flow") IN
        /\ \A i \in ElementsOf(pkg.doc, "sequenceFlow") :
              pkg.doc[i].id # ABSENT => CountFor(out, pkg.doc[i].id) = 1
        /\ NoSharedId(out)

\* C2: after a run over a parsable document the output holds exactly one
\* messaging-edge chunk per distinct messageFlow id, and no two messaging-edge
\* chunks share an id.
C2_OneChunkPerMessageFlow ==
    (Done /\ Parsed) =>
        LET out == OfType(result.chunks, "bpmn_message_flow") IN
        /\ \A i \in ElementsOf(pkg.doc, "messageFlow") :
              pkg.doc[i].id # ABSENT => CountFor(out, pkg.doc[i].id) = 1
        /\ NoSharedId(out)

\* C3: in every component chunk each id of the outgoing-edge list is the id
\* of a sequenceFlow of the document whose sourceRef is the component, the
\* list repeats no id (connections and sequence_flows agree), and no edge id
\* is in the lists of two different component chunks.
C3_OutgoingEdgesOwned ==
    LET cs == ComponentChunks(iflow_chunks) IN
    /\ \A k \in 1..Len(cs) :
          /\ \A e \in 1..Len(cs[k].connections) :
                \E i \in ElementsOf(pkg.doc, "sequenceFlow") :
                    /\ pkg.doc[i].id = cs[k].connections[e]
                    /\ pkg.doc[i].sourceRef = cs[k].component_id
          /\ \A d, e \in 1..Len(cs[k].connections) :
                d # e => cs[k].connections[d] # cs[k].connections[e]
          /\ cs[k].connections = [e \in 1..Len(cs[k].sequence_flows) |-> cs[k].sequence_flows[e].id]
    /\ \A j, k \in 1..Len(cs) :
          j # k => Range(cs[j].connections) \cap Range(cs[k].connections) = {}

\* C3 witness: two component chunks have been built, one with two outgoing
\* edges or both with one.
C3_Witness ==
    LET cs == ComponentChunks(iflow_chunks) IN
    \E j, k \in 1..Len(cs) :
        /\ j # k
        /\ cs[j].connections # <<>>
        /\ cs[k].connections # <<>>

\* C4: a finished run over a parsable document returns exactly one
\* full-document chunk, with id <stem>_full_xml and the document's text as
\* read; a run that found no process-definition document returns none.
C4_OneFullDocumentChunk ==
    Done =>
        LET full == OfType(result.chunks, "bpmn_full_xml") IN
        /\ Parsed => /\ Len(full) = 1
                     /\ full[1].id = FileStem(main_iflow) \o "_full_xml"
                     /\ full[1].content = main_iflow.text
        /\ main_iflow = None => full = <<>>

C4_Witness == Done /\ Parsed /\ Len(result.chunks) > 1 /\ Len(pkg.files) > 1

\* C5: a run whose process-definition document is missing or does not parse
\* returns total_chunks = 0 and an empty chunk list.
C5_FatalMeansNoChunks ==
    (Done /\ ~Parsed) => result.total_chunks = 0 /\ result.chunks = <<>>

\* C6: in the coverage report, per category processed plus the category's
\* files listed as missing is the category's total, overall processed plus
\* missing is the discovered total, and the percentage is 100 whenever
\* nothing is missing.
C6_CoverageAdds ==
    Done =>
        LET report == result.coverage_report
            missing == report.missing_files
        IN /\ \A c \in Range(Categories) :
                 report.file_type_breakdown[c].processed
                   + Len(SelectSeq(missing, LAMBDA f : f \in Range(all_files[c])))
                 = report.file_type_breakdown[c].total
           /\ report.total_files_processed + Len(missing) = report.total_files_discovered
           /\ missing = <<>> => report.coverage_percentage = 100

C6_Witness ==
    /\ Done
    /\ result.coverage_report.missing_files # <<>>
    /\ result.coverage_report.total_files_processed > 0

\* C7: every file the run counts as processed has a chunk of its relative
\* path in the returned chunk list.
C7_ProcessedHasChunk ==
    Done =>
        \A f \in Range(processed_files) :
            \E k \in 1..Len(result.chunks) : result.chunks[k].file_name = RelPath(f)

\* A component whose chunk cannot be built
ComponentFails(doc, component_id) ==
    \/ ById(doc, component_id) = <<>>
    \/ ~HasChildren(doc, ById(doc, component_id)[1])
    \/ PropertiesRaise(doc, ById(doc, component_id)[1])

HasChunkFor(cs, file_type, component_id) ==
    \E k \in 1..Len(cs) : cs[k].file_type = file_type /\ cs[k].component_id = component_id

\* C8: when building one component's chunk fails, the run still finishes
\* with a result holding a coverage report, every other discovered
\* component has its chunk, and the flow-edge, process, subprocess and
\* auxiliary-file passes have emitted their chunks.
C8_ComponentFailureIsLocal ==
    (Done /\ Parsed /\ \E c \in Range(component_ids) : ComponentFails(pkg.doc, c)) =>
        LET doc == pkg.doc
            cs == result.chunks
        IN /\ result.coverage_report.total_files_discovered
                = SumLens(all_files, Categories)
           /\ \A c \in Range(component_ids) :
                 ~ComponentFails(doc, c) => HasChunkFor(cs, "bpmn", c)
           /\ \A i \in ElementsOf(doc, "sequenceFlow") :
                 HasChunkFor(cs, "bpmn_sequence_flow", IdOr(doc, i, "sequenceFlow"))
           /\ \A i \in ElementsOf(doc, "messageFlow") :
                 HasChunkFor(cs, "bpmn_message_flow", IdOr(doc, i, "messageFlow"))
           /\ \A i \in ElementsOf(doc, "process") \cup ElementsOf(doc, "subProcess") :
                 HasChunkFor(cs, "bpmn", doc[i].id)
           /\ \A k \in 1..Len(RelatedFiles(all_files)) :
                 LET rf == RelatedFiles(all_files)[k] IN
                 ~RelatedFileSkipped(rf.file) =>
                     \E j \in 1..Len(cs) : cs[j].file_name = RelPath(rf.file)

\* C8 witness: a finished run in which a component failed, a component
\* discovered after it has its chunk, and flow and file chunks exist.
C8_Witness ==
    /\ Done /\ Parsed
    /\ \E a, b \in 1..Len(component_ids) :
          /\ a < b
          /\ ComponentFails(pkg.doc, component_ids[a])
          /\ HasChunkFor(result.chunks, "bpmn", component_ids[b])
    /\ OfType(result.chunks, "bpmn_sequence_flow") # <<>>
    /\ OfType(result.chunks, "groovy_scripts") # <<>>

\* The package of the scenario: one document with S1, T1, E1 in one
\* process and the edges F1 = S1->T1, F2 = T1->E1
ScenarioPackage ==
    [files |-> <<FileUniverse[1]>>, doc |-> MakeDoc(3, 0, {1, 2}, "plain")]

ConnectionsOf(cs, component_id) ==
    {cs[k].connections : k \in {j \in 1..Len(cs) : cs[j].component_id = component_id}}

\* C9: the scenario package yields exactly 1 full-document chunk, 3
\* component chunks with outgoing lists [F1] for S1, [F2] for T1 and [] for
\* E1, exactly 2 ordering-edge chunks, and coverage 100.
C9_Scenario ==
    (Done /\ pkg = ScenarioPackage) =>
        LET cs == result.chunks
            comps == ComponentChunks(cs)
        IN /\ Len(OfType(cs, "bpmn_full_xml")) = 1
           /\ Len(comps) = 3
           /\ ConnectionsOf(comps, "S1") = {<<"F1">>}
           /\ ConnectionsOf(comps, "T1") = {<<"F2">>}
           /\ ConnectionsOf(comps, "E1") = {<<>>}
           /\ Len(OfType(cs, "bpmn_sequence_flow")) = 2
           /\ result.coverage_report.coverage_percentage = 100

\* The part of a chunk's id after the stem: the element or flow id, or the
\* file type of an auxiliary file
IdSuffix(c) == IF c.component_id # ABSENT THEN c.component_id ELSE c.file_type

FileRefs(c) ==
    LET refs == SelectSeq(c.related_scripts, LAMBDA r : r.relation = "file") IN
    [k \in 1..Len(refs) |-> refs[k].file_name]
\* The discovered script files whose lowercased name, or stem, is the key
ScriptsNamed(lc) ==
    SelectSeq(all_files["groovy_scripts"], LAMBDA f : Lower(FileName(f)) = lc)
ScriptsWithStem(stem) ==
    SelectSeq(all_files["groovy_scripts"], LAMBDA f : Lower(FileStem(f)) = stem)
LastOf(fs) == fs[Len(fs)]
ChunkOf(cs, component_id) ==
    CHOOSE k \in 1..Len(cs) : cs[k].component_id = component_id

\* C11: a component whose only script candidate is the value of its
\* "script" property refers to the discovered script file of that name,
\* letter case ignored; when no file has that name, to the file of the same
\* stem; and to nothing when neither exists. A file of that name is taken
\* even when the stem key leads to another file.
C11_NameBeforeStem ==
    \A k \in 1..Len(iflow_chunks) :
        LET c == iflow_chunks[k] IN
        (c.component_id \in {"T1", "E1"} /\ "script" \in DOMAIN c.properties) =>
            LET lc      == Lower(c.properties["script"])
                named   == ScriptsNamed(lc)
                stemmed == ScriptsWithStem(StemOf(lc))
            IN /\ FileRefs(c) = IF named # <<>> THEN <<RelPath(LastOf(named))>>
                                ELSE IF stemmed # <<>> THEN <<RelPath(LastOf(stemmed))>>
                                ELSE <<>>
               /\ c.unresolved_script_refs =
                     IF named = <<>> /\ stemmed = <<>> THEN <<c.properties["script"]>> ELSE <<>>

\* C11 witness: both Validate.groovy and Validate.gsh are indexed, the stem
\* key leads to Validate.gsh, and the chunk of E1, whose reference is spelled
\* VALIDATE.GROOVY, refers to Validate.groovy.
C11_Witness ==
    /\ "validate" \in DOMAIN script_index
    /\ script_index["validate"].file_name = "lib/Validate.gsh"
    /\ \E k \in 1..Len(iflow_chunks) :
          /\ iflow_chunks[k].component_id = "E1"
          /\ iflow_chunks[k].properties["script"] = "VALIDATE.GROOVY"
          /\ FileRefs(iflow_chunks[k]) = <<"script/Validate.groovy">>

\* A component chunk whose reference Validate.groovy is resolved through the
\* stem key alone, only Validate.gsh being indexed
StemOnlyResolution ==
    /\ "validate.groovy" \notin DOMAIN script_index
    /\ \E k \in 1..Len(iflow_chunks) :
          /\ iflow_chunks[k].component_id = "T1"
          /\ FileRefs(iflow_chunks[k]) = <<"lib/Validate.gsh">>

\* The values of a chunk's property map
PropertyValues(c) == {c.properties[key] : key \in DOMAIN c.properties}
\* The script file names written under the ordering edges that are part of
\* a component chunk's markup
EdgeScriptNames(c) ==
    UNION {{pkg.doc[i].props[j][2] : j \in 1..Len(pkg.doc[i].props)} :
              i \in {e \in Range(c.content) : pkg.doc[e].tag = "sequenceFlow"}}
    \cap ScriptLiterals

ContainerTags == {"process", "subProcess"}
ContainerChunks(cs) ==
    SelectSeq(cs, LAMBDA c : c.file_type = "bpmn" /\ c.component_type \in ContainerTags)
\* The position of the container element a container chunk was made from
ContainerOf(doc, c) ==
    CHOOSE i \in 1..Len(doc) : doc[i].tag = c.component_type /\ doc[i].id = c.component_id
\* The key/value pairs written directly under an element
DirectPairs(doc, i) == {doc[i].props[j] : j \in 1..Len(doc[i].props)}

\* C13: every pair of a process or subprocess chunk's property map is a
\* property written directly under that container; a property written under
\* another container, nested in it or around it, is not in the map.
C13_OnlyDirectProperties ==
    LET cs == ContainerChunks(iflow_chunks) IN
    \A k \in 1..Len(cs) :
        LET c == cs[k]
            i == ContainerOf(pkg.doc, c)
        IN /\ \A key \in DOMAIN c.properties :
                 <<key, c.properties[key]>> \in DirectPairs(pkg.doc, i)
           /\ \A o \in 1..Len(pkg.doc) :
                 (o # i /\ pkg.doc[o].tag \in ContainerTags) =>
                     \A pair \in DirectPairs(pkg.doc, o) \ DirectPairs(pkg.doc, i) :
                         pair[1] \notin DOMAIN c.properties

\* C13 witness: the chunks of process P1 and of the subProcess SP1 nested in
\* it exist; SP1 has a property of its own and holds T1 with another; the map
\* of P1 has the processType alone, the map of SP1 the activityType alone.
C13_Witness ==
    LET cs == ContainerChunks(iflow_chunks) IN
    \E j, k \in 1..Len(cs) :
        /\ cs[j].component_id = "P1" /\ cs[k].component_id = "SP1"
        /\ IsAncestor(pkg.doc, ContainerOf(pkg.doc, cs[j]), ContainerOf(pkg.doc, cs[k]))
        /\ DOMAIN cs[j].properties = {"processType"}
        /\ DOMAIN cs[k].properties = {"activityType"}
        /\ \E t \in 1..Len(pkg.doc) :
              /\ IsAncestor(pkg.doc, ContainerOf(pkg.doc, cs[k]), t)
              /\ pkg.doc[t].props # <<>>

NoRepeats(xs) == \A j, k \in 1..Len(xs) : j # k => xs[j] # xs[k]

\* C14: the discovered component ids repeat no id; every recognized element
\* has exactly one component chunk in the output, unless building its chunk
\* raised; no two component chunks have the same component_id.
C14_OneChunkPerComponent ==
    (Done /\ Parsed) =>
        LET cs == ComponentChunks(result.chunks) IN
        /\ NoRepeats(component_ids)
        /\ \A i \in 1..Len(pkg.doc) :
              (pkg.doc[i].tag \in Range(ComponentTypes) /\ pkg.doc[i].id # ABSENT
               /\ ~PropertiesRaise(pkg.doc, i)) =>
                  CountFor(cs, pkg.doc[i].id) = 1
        /\ \A j, k \in 1..Len(cs) : j # k => cs[j].component_id # cs[k].component_id

\* C15: a step of the auxiliary-file pass, in which the script index entries
\* receive their chunk ids, leaves every chunk emitted so far as it was: the
\* chunk list keeps its elements and at most grows, and the chunks of the
\* main document are untouched.
C15_BackfillLeavesChunks ==
    [][pc = "related" =>
          /\ Len(chunks') >= Len(chunks)
          /\ \A k \in 1..Len(chunks) : chunks'[k] = chunks[k]
          /\ iflow_chunks' = iflow_chunks]_vars

\* C15 witness: an index entry has received the chunk id of its script, and
\* an emitted component chunk refers to that script with an empty chunk id.
C15_Witness ==
    \E key \in DOMAIN script_index :
        /\ script_index[key].chunk_id # ABSENT
        /\ \E k \in 1..Len(chunks) :
              \E j \in 1..Len(chunks[k].related_scripts) :
                  /\ chunks[k].related_scripts[j].file_name = script_index[key].file_name
                  /\ chunks[k].related_scripts[j].chunk_id = ABSENT

\* The passes over the main document that come before and include the
\* component loop
BeforeOrInComponents == {"parse", "component_ids", "components"}

\* C16: from the moment the main document is about to be read until the last
\* component is processed, the script index has an entry under the
\* lowercased name and under the lowercased stem of every discovered script
\* file; hence a component's "script" reference is resolved exactly when a
\* discovered script has its name or stem, also when that script lies behind
\* the document in the walk and has no chunk yet.
C16_IndexedBeforeComponents ==
    /\ pc \in BeforeOrInComponents =>
          \A k \in 1..Len(all_files["groovy_scripts"]) :
              LET f == all_files["groovy_scripts"][k] IN
              /\ Lower(FileName(f)) \in DOMAIN script_index
              /\ Lower(FileStem(f)) \in DOMAIN script_index
              /\ script_index[Lower(FileName(f))].file_name = RelPath(f)
    /\ \A k \in 1..Len(iflow_chunks) :
          LET c == iflow_chunks[k] IN
          (c.component_type \in Range(ComponentTypes) /\ "script" \in DOMAIN c.properties) =>
              (FileRefs(c) # <<>>
                 <=> \/ ScriptsNamed(Lower(c.properties["script"])) # <<>>
                     \/ ScriptsWithStem(StemOf(Lower(c.properties["script"]))) # <<>>)

\* C16 witness: the component loop is about to take its first component, two
\* script files are discovered and indexed, none of them has a chunk.
C16_Witness ==
    /\ pc = "components" /\ ci = 1
    /\ Len(all_files["groovy_scripts"]) = 2
    /\ {"validate.groovy", "validate.gsh", "validate"} \subseteq DOMAIN script_index
    /\ chunks = <<>>
    /\ ComponentChunks(iflow_chunks) = <<>>

\* All discovered files, bucket after bucket
Discovered == Flatten([c \in 1..Len(Categories) |-> all_files[Categories[c]]])
HasChunkOfFile(cs, f) == \E k \in 1..Len(cs) : cs[k].file_name = RelPath(f)
\* An auxiliary file that _process_related_file leaves out by its name,
\* extension or size policy
SkippedByPolicy(f) == f \notin Range(all_files["main_iflow"]) /\ RelatedFileSkipped(f)

\* C17: in a finished run in which every discovered file has a chunk or was
\* left out by policy, the coverage percentage is 100, and no file left out
\* by policy is listed in missing_files.
C17_PolicySkipsKeepCoverage ==
    Done =>
        LET report == result.coverage_report IN
        (\A f \in Range(Discovered) : HasChunkOfFile(result.chunks, f) \/ SkippedByPolicy(f)) =>
            /\ report.coverage_percentage = 100
            /\ \A f \in Range(Discovered) :
                  SkippedByPolicy(f) => f \notin Range(report.missing_files)

\* The value of the first pair with the key, in document order
FirstValue(pairs, key) ==
    pairs[CHOOSE j \in 1..Len(pairs) :
              pairs[j][1] = key /\ \A i \in 1..(j - 1) : pairs[i][1] # key][2]

\* C18: the property map of a component chunk holds, for every key, the
\* value of the first property of that key under the component, in document
\* order.
C18_FirstPropertyWins ==
    LET cs == ComponentChunks(iflow_chunks) IN
    \A k \in 1..Len(cs) :
        LET pairs == PropertyPairs(pkg.doc, ById(pkg.doc, cs[k].component_id)[1]) IN
        \A j \in 1..Len(pairs) :
            /\ pairs[j][1] \in DOMAIN cs[k].properties
            /\ cs[k].properties[pairs[j][1]] = FirstValue(pairs, pairs[j][1])

\* The process elements among the proper ancestors of a position
ProcessAncestors(doc, i) ==
    {a \in 1..Len(doc) : doc[a].tag = "process" /\ IsAncestor(doc, a, i)}
\* The one of them that no other lies below
NearestProcess(doc, i) ==
    CHOOSE a \in ProcessAncestors(doc, i) :
        \A b \in ProcessAncestors(doc, i) : ~IsAncestor(doc, a, b)

\* C19: for every element of the document, ownership resolution gives the
\* id of the nearest proper ancestor of local name 'process', whatever
\* subProcess lies between, and nothing when no ancestor is a process (a
\* process itself included); every component chunk carries the participant
\* of the process found this way.
C19_NearestProcessOwns ==
    pkg.doc # Unparsable =>
        /\ \A i \in 1..Len(pkg.doc) :
              FindOwningProcessId(pkg.doc, i) =
                  IF ProcessAncestors(pkg.doc, i) = {} THEN ABSENT
                  ELSE pkg.doc[NearestProcess(pkg.doc, i)].id
        /\ \A k \in 1..Len(iflow_chunks) :
              LET c == iflow_chunks[k] IN
              c.component_type \in Range(ComponentTypes) =>
                  LET i == ById(pkg.doc, c.component_id)[1] IN
                  c.participant =
                      IF ProcessAncestors(pkg.doc, i) = {} THEN ABSENT
                      ELSE DictGet(BuildProcessToParticipantMap(pkg.doc),
                                   pkg.doc[NearestProcess(pkg.doc, i)].id, ABSENT)

\* C19 witness: the chunk of T1, which lies in the subProcess SP1 of process
\* P1, carries the participant of P1, while the elements of the
\* collaboration have no owner.
C19_Witness ==
    /\ pkg.doc # Unparsable
    /\ \E k \in 1..Len(iflow_chunks) :
          LET c == iflow_chunks[k] IN
          /\ c.component_id = "T1"
          /\ pkg.doc[pkg.doc[ById(pkg.doc, "T1")[1]].parent].tag = "subProcess"
          /\ c.participant = "Part1"
    /\ \E i \in 1..Len(pkg.doc) :
          pkg.doc[i].tag = "messageFlow" /\ FindOwningProcessId(pkg.doc, i) = ABSENT

\* The participants that have both an id and the given processRef
ParticipantsOf(doc, proc) ==
    {i \in ElementsOf(doc, "participant") :
        doc[i].processRef = proc /\ doc[i].id # ABSENT}
First(S) == CHOOSE i \in S : \A j \in S : i <= j

\* C20: the container-to-participant map has an entry exactly for the
\* process ids named by a participant that has an id, and the entry is the
\* id of the first such participant in document order; the participant
\* fields of the emitted chunks show that participant.
C20_FirstParticipantWins ==
    pkg.doc # Unparsable =>
        LET map == BuildProcessToParticipantMap(pkg.doc) IN
        /\ DOMAIN map = {pkg.doc[i].processRef :
                            i \in {j \in ElementsOf(pkg.doc, "participant") :
                                      pkg.doc[j].processRef # ABSENT /\ pkg.doc[j].id # ABSENT}}
        /\ \A proc \in DOMAIN map :
              map[proc] = pkg.doc[First(ParticipantsOf(pkg.doc, proc))].id
        /\ \A k \in 1..Len(iflow_chunks) :
              LET c == iflow_chunks[k] IN
              (c.component_type \in Range(ComponentTypes) /\ c.participant # ABSENT) =>
                  \E proc \in DOMAIN map :
                      c.participant = pkg.doc[First(ParticipantsOf(pkg.doc, proc))].id

\* C20 witness: the collaboration holds a participant without id, then
\* Part1 and later Part2, all naming P1, and one without processRef; a
\* component chunk has been emitted with participant Part1.
C20_Witness ==
    /\ pkg.doc # Unparsable
    /\ \E a, b, c, d \in ElementsOf(pkg.doc, "participant") :
          /\ a < b /\ b < c
          /\ pkg.doc[a].id = ABSENT /\ pkg.doc[a].processRef = "P1"
          /\ pkg.doc[b].id = "Part1" /\ pkg.doc[b].processRef = "P1"
          /\ pkg.doc[c].id = "Part2" /\ pkg.doc[c].processRef = "P1"
          /\ pkg.doc[d].id # ABSENT /\ pkg.doc[d].processRef = ABSENT
    /\ \E k \in 1..Len(iflow_chunks) :
          /\ iflow_chunks[k].component_type \in Range(ComponentTypes)
          /\ iflow_chunks[k].participant = "Part1"

\* The place of a chunk's variant in the order of the passes
PassRank(c) ==
    CASE c.file_type = "bpmn_full_xml" -> 1
      [] c.file_type = "bpmn" /\ c.component_type \in Range(ComponentTypes) -> 2
      [] c.file_type \in {"bpmn_message_flow", "bpmn_sequence_flow"} -> 3
      [] c.file_type = "bpmn" /\ c.component_type = "process" -> 4
      [] c.file_type = "bpmn" /\ c.component_type = "subProcess" -> 5
      [] OTHER -> 6

\* C21: a pass starts when the one before it is complete (the index is built
\* before the document is read, the component loop is through before the
\* flow-edge passes, all auxiliary files are taken before coverage); in the
\* returned list the full-document chunk comes before the component chunks,
\* these before the flow-edge chunks, these before the process chunks, these
\* before the subprocess chunks; the report is the one of the final
\* processed-file list.
C21_PassesInSequence ==
    /\ pc \in {"message_flows", "sequence_flows", "processes", "subprocesses", "return_main"}
          => /\ ci > Len(component_ids) \/ component_ids = <<>>
             /\ chunks = <<>>
    /\ pc \in {"coverage", "done"} => pending = <<>>
    /\ \A j, k \in 1..Len(iflow_chunks) :
          j < k => PassRank(iflow_chunks[j]) <= PassRank(iflow_chunks[k])
    /\ Done =>
          /\ \A j, k \in 1..Len(result.chunks) :
                j < k => PassRank(result.chunks[j]) <= PassRank(result.chunks[k])
          /\ result.coverage_report = VerifyCompleteCoverage(all_files, processed_files)

\* C21 witness: a finished run returned chunks of every variant.
C21_Witness ==
    /\ Done
    /\ {PassRank(result.chunks[k]) : k \in 1..Len(result.chunks)} = 1..6

\* The recognized elements with an id that are the source of no ordering
\* edge with an id
Terminal(doc) ==
    {i \in 1..Len(doc) :
        /\ doc[i].tag \in Range(ComponentTypes) /\ doc[i].id # ABSENT
        /\ \A e \in ElementsOf(doc, "sequenceFlow") :
              doc[e].id # ABSENT => doc[e].sourceRef # doc[i].id}

\* C22: in a finished run every recognized component that is the source of
\* no ordering edge has a component chunk, whose outgoing-edge list is empty,
\* unless building its chunk raised.
C22_TerminalComponentChunked ==
    (Done /\ Parsed) =>
        \A i \in Terminal(pkg.doc) :
            ~PropertiesRaise(pkg.doc, i) =>
                \E k \in 1..Len(result.chunks) :
                    /\ result.chunks[k].file_type = "bpmn"
                    /\ result.chunks[k].component_id = pkg.doc[i].id
                    /\ result.chunks[k].connections = <<>>
                    /\ result.chunks[k].sequence_flows = <<>>

\* The candidates of a component chunk: the script-like property values,
\* then the script file names of its markup
CandidatesOf(c) ==
    PropertyCandidates(pkg.doc, ById(pkg.doc, c.component_id)[1], c.properties)
    \o MarkupMatches(pkg.doc, c.content)
\* Whether a lowercased candidate has a discovered script of its name or stem
Indexed(lc) == ScriptsNamed(lc) # <<>> \/ ScriptsWithStem(StemOf(lc)) # <<>>

\* C23: in every component chunk the candidates that differ when letter case
\* is ignored are split between the two lists: as many resolved references
\* as candidates with an index hit, and the unresolved list holds, once and
\* in its original spelling, every candidate with an index miss and nothing
\* else.
C23_CandidatesPartitioned ==
    LET cs == ComponentChunks(iflow_chunks) IN
    \A k \in 1..Len(cs) :
        LET c       == cs[k]
            cands   == CandidatesOf(c)
            lowered == {Lower(cands[j]) : j \in 1..Len(cands)}
            missed  == c.unresolved_script_refs
        IN /\ Len(FileRefs(c)) = Cardinality({lc \in lowered : Indexed(lc)})
           /\ Len(missed) = Cardinality({lc \in lowered : ~Indexed(lc)})
           /\ Len(FileRefs(c)) + Len(missed) = Cardinality(lowered)
           /\ \A j \in 1..Len(missed) :
                 /\ missed[j] \in Range(cands)
                 /\ ~Indexed(Lower(missed[j]))
           /\ \A i, j \in 1..Len(missed) : i # j => Lower(missed[i]) # Lower(missed[j])

\* C23 witness: the chunk of T1, whose candidates Validate.groovy and
\* VALIDATE.GROOVY differ in letter case only, has one resolved reference and
\* no unresolved one, and the chunk of S1 has the missed candidate
\* processData as written next to a resolved reference.
C23_Witness ==
    LET cs == ComponentChunks(iflow_chunks) IN
    \E j, k \in 1..Len(cs) :
        /\ cs[j].component_id = "T1"
        /\ {"Validate.groovy", "VALIDATE.GROOVY"} \subseteq Range(CandidatesOf(cs[j]))
        /\ Len(FileRefs(cs[j])) = 1 /\ cs[j].unresolved_script_refs = <<>>
        /\ cs[k].component_id = "S1"
        /\ cs[k].unresolved_script_refs = <<"processData">>
        /\ Len(FileRefs(cs[k])) = 1

\* C24: a finished run over a parsable document returns exactly one process
\* chunk per process id and exactly one subprocess chunk per subProcess id;
\* the chunk of a process is the serialization of the whole process element,
\* so a subProcess nested in it is in that markup and has its own chunk too.
C24_OneChunkPerContainer ==
    (Done /\ Parsed) =>
        LET cs == ContainerChunks(result.chunks) IN
        /\ \A tag \in ContainerTags :
              \A i \in ElementsOf(pkg.doc, tag) :
                  Cardinality({k \in 1..Len(cs) :
                                  /\ cs[k].component_type = tag
                                  /\ cs[k].component_id = pkg.doc[i].id}) = 1
        /\ Len(cs) = Cardinality(ElementsOf(pkg.doc, "process"))
                       + Cardinality(ElementsOf(pkg.doc, "subProcess"))
        /\ \A k \in 1..Len(cs) :
              cs[k].content = <<CleanProcessXml(ContainerOf(pkg.doc, cs[k]))>>

\* C24 witness: the returned list holds the chunk of process P1 and the
\* chunk of the subProcess SP1 that lies inside P1.
C24_Witness ==
    /\ Done /\ Parsed
    /\ LET cs == ContainerChunks(result.chunks) IN
       \E j, k \in 1..Len(cs) :
           /\ cs[j].component_type = "process" /\ cs[j].component_id = "P1"
           /\ cs[k].component_type = "subProcess" /\ cs[k].component_id = "SP1"
           /\ ContainerOf(pkg.doc, cs[k]) \in Range(Iter(pkg.doc, ContainerOf(pkg.doc, cs[j])))

\* C25: no step of a run removes, moves or replaces a chunk of the run's
\* chunk list, the list only grows; the result's total_chunks is the length
\* of the final list, which is the list returned.
C25_ChunkListAppendOnly ==
    /\ [][pc # "done" =>
              /\ Len(chunks') >= Len(chunks)
              /\ \A k \in 1..Len(chunks) : chunks'[k] = chunks[k]]_vars
    /\ [](Done => result.total_chunks = Len(chunks) /\ result.chunks = chunks)

\* C25 witness: a finished run whose list took the chunks of the main
\* document and then the chunks of two auxiliary files.
C25_Witness ==
    /\ Done /\ Parsed
    /\ result.total_chunks >= 4
    /\ Cardinality({k \in 1..Len(chunks) : PassRank(chunks[k]) = 6}) = 2

\* C26: the chunks a finished run returns have pairwise distinct ids.
C26_ChunkIdsDistinct == Done => NoSharedId(result.chunks)

\* C27: once a run has finished, every script index entry either has no
\* chunk id or carries the id of an emitted chunk whose file_name is the
\* entry's own relative path.
C27_IndexEntriesSelfConsistent ==
    Done =>
        \A key \in DOMAIN script_index :
            \/ script_index[key].chunk_id = ABSENT
            \/ \E k \in 1..Len(chunks) :
                   /\ chunks[k].file_name = script_index[key].file_name
                   /\ chunks[k].id = script_index[key].chunk_id

\* The ordering-edge chunks of a list whose source is the given component
EdgesFrom(list, component_id) ==
    {k \in 1..Len(list) : /\ list[k].file_type = "bpmn_sequence_flow"
                          /\ list[k].connections[1] = component_id}

OwnershipAgrees(list) ==
    \A j \in 1..Len(list) :
        (list[j].file_type = "bpmn" /\ list[j].component_type \in Range(ComponentTypes)) =>
            \A k \in EdgesFrom(list, list[j].component_id) :
                list[k].participants.source = list[j].participant

\* C28: a component chunk and every ordering-edge chunk whose source is that
\* component name the same participant, the empty one included.
C28_OwnershipAgrees == OwnershipAgrees(iflow_chunks) /\ OwnershipAgrees(chunks)

\* C28 witness: a finished run returned a component owned by participant
\* Part1 through a subProcess, with an ordering edge leaving it.
C28_Witness ==
    /\ Done
    /\ \E j \in 1..Len(chunks) :
          /\ chunks[j].file_type = "bpmn"
          /\ chunks[j].component_id = "T1"
          /\ chunks[j].participant = "Part1"
          /\ EdgesFrom(chunks, "T1") # {}
          /\ \A k \in EdgesFrom(chunks, "T1") : chunks[k].participants.source = "Part1"

\* The file references of the component chunks of a list
ComponentFileRefs(list) ==
    UNION {{r \in Range(ComponentChunks(list)[k].related_scripts) : r.relation = "file"} :
              k \in 1..Len(ComponentChunks(list))}

\* C29: while the document is read and its components are processed no
\* script index entry has a chunk id, and a file reference stored in a
\* component chunk has an empty chunk_id in every state, the states after the
\* backfill included.
C29_ComponentRefsWithoutChunkId ==
    /\ pc \in BeforeOrInComponents =>
          \A key \in DOMAIN script_index : script_index[key].chunk_id = ABSENT
    /\ \A r \in ComponentFileRefs(iflow_chunks) \cup ComponentFileRefs(chunks) :
          r.chunk_id = ABSENT
    /\ Done => \A r \in ComponentFileRefs(result.chunks) : r.chunk_id = ABSENT

\* C29 witness: a finished run whose component T1 holds a reference to
\* script/Validate.groovy with an empty chunk_id, while that file's chunk is
\* emitted and its index entry names the chunk.
C29_Witness ==
    /\ Done
    /\ \E r \in ComponentFileRefs(result.chunks) :
          /\ r.file_name = "script/Validate.groovy"
          /\ r.chunk_id = ABSENT
    /\ \E k \in 1..Len(result.chunks) :
          /\ result.chunks[k].file_name = "script/Validate.groovy"
          /\ result.chunks[k].id = "Validate_groovy_scripts"
    /\ "validate.groovy" \in DOMAIN script_index
    /\ script_index["validate.groovy"].chunk_id = "Validate_groovy_scripts"

\* The process definitions discovered behind the first one
OtherIflows == Tail(all_files["main_iflow"])

\* C30: with two or more process definitions discovered, every chunk made
\* from a document carries the name of the first one, no chunk carries the
\* name of another one, and at the end of the run the others are still in
\* the main-document bucket, are listed in missing_files, and the coverage
\* percentage is below 100.
C30_OnlyFirstIflowDecomposed ==
    Len(all_files["main_iflow"]) >= 2 =>
        /\ \A k \in 1..Len(iflow_chunks) :
              iflow_chunks[k].file_name = RelPath(all_files["main_iflow"][1])
        /\ \A k \in 1..Len(chunks) :
              /\ chunks[k].file_name \notin {RelPath(f) : f \in Range(OtherIflows)}
              /\ chunks[k].file_type \in {"bpmn", "bpmn_sequence_flow", "bpmn_message_flow",
                                          "bpmn_full_xml"}
                    => chunks[k].file_name = RelPath(all_files["main_iflow"][1])
        /\ Done =>
              /\ Range(OtherIflows) \subseteq Range(result.coverage_report.missing_files)
              /\ Range(OtherIflows) \cap Range(processed_files) = {}
              /\ result.coverage_report.coverage_percentage < 100
              /\ result.coverage_report.file_type_breakdown["main_iflow"].total
                    = Len(all_files["main_iflow"])
              /\ result.coverage_report.file_type_breakdown["main_iflow"].processed <= 1

\* C30 witness: a finished run over flow/Order.iflw and flow/Other.iflw
\* that decomposed the first into a full-document chunk and components and
\* reports the second as missing.
C30_Witness ==
    /\ Done /\ Parsed
    /\ Len(all_files["main_iflow"]) = 2
    /\ main_iflow = FileUniverse[1]
    /\ ComponentChunks(result.chunks) # <<>>
    /\ FileUniverse[2] \in Range(result.coverage_report.missing_files)
    /\ result.coverage_report.file_type_breakdown["main_iflow"].coverage = 50

====
